---- MODULE Spec2Model ----
(***************************************************************************)
(* Synthetic airline dataset generator (generate_airline_data.py) and the  *)
(* contingency aggregator (create_proper_contingency_table.py).            *)
(*                                                                         *)
(* Probabilities are kept exact: a preference or segment weight is an      *)
(* integer number of hundredths (0.55 is 55), an average visit count is in *)
(* tenths (2.2 is 22), a boost multiplier is in halves (3.5 is 7), and a   *)
(* boosted weight is a fraction [n, d].                                    *)
(***************************************************************************)
EXTENDS Integers, Sequences, FiniteSets, TLC

\* ------------------------------------------------------------------ bounds
\* Largest raw value r the random source hands out: a Poisson sample is in
\* 0..MaxSample, a seeded uniform variate is the midpoint of one of
\* MaxSample+1 equal bins of [0,1), (2r+1)/(2(MaxSample+1)).
MaxSample == 6
\* Period of the seeded random stream.
TapeLen == 2
\* Largest num_users given to generate_synthetic_dataset.
MaxUsers == 20
\* Largest number of rows of an input record file given to the aggregator.
MaxRows == 2

\* ------------------------------------------------------- program constants
\* checkpoint = num_users // 20
CheckpointDivisor == 20
\* Unit of the probabilities: np.random.choice wants sum(p) = 1.
One == 100

\* ---------------------------------------------------------------- catalogs
\* AIRLINES.keys(), in declaration order.
AIRLINES == <<"British_Airways", "Virgin_Atlantic", "Lufthansa", "Air_France", "Ryanair">>

Range(s) == {s[i] : i \in 1..Len(s)}

AirlineSet == Range(AIRLINES)

\* A dict literal, as the sequence of its items in insertion order.
KV(k, v) == [k |-> k, v |-> v]

Rule(a1, a2, boost) == [a1 |-> a1, a2 |-> a2, boost |-> boost]

Profile(w, prefs, avg, boosts) ==
    [weight |-> w, preferences |-> prefs, avg_visits |-> avg, cooccurrence_boost |-> boosts]

\* USER_TYPES as shipped.
ShippedProfiles ==
    [business_uk |->
        Profile(22,
                <<KV("British_Airways", 55), KV("Virgin_Atlantic", 35), KV("Lufthansa", 8),
                  KV("Air_France", 2), KV("Ryanair", 0)>>,
                22,
                <<Rule("British_Airways", "Virgin_Atlantic", 10)>>),
     business_european |->
        Profile(18,
                <<KV("Lufthansa", 50), KV("Air_France", 40), KV("British_Airways", 8),
                  KV("Virgin_Atlantic", 2), KV("Ryanair", 0)>>,
                21,
                <<Rule("Lufthansa", "Air_France", 10)>>),
     leisure_premium |->
        Profile(25,
                <<KV("British_Airways", 30), KV("Virgin_Atlantic", 30), KV("Lufthansa", 25),
                  KV("Air_France", 15), KV("Ryanair", 0)>>,
                28,
                <<Rule("British_Airways", "Virgin_Atlantic", 7),
                  Rule("Lufthansa", "Air_France", 6)>>),
     budget_conscious |->
        Profile(25,
                <<KV("Ryanair", 75), KV("British_Airways", 8), KV("Lufthansa", 7),
                  KV("Air_France", 6), KV("Virgin_Atlantic", 4)>>,
                18,
                <<Rule("Ryanair", "British_Airways", 4)>>),
     price_shopper |->
        Profile(10,
                <<KV("Ryanair", 40), KV("British_Airways", 20), KV("Lufthansa", 18),
                  KV("Air_France", 12), KV("Virgin_Atlantic", 10)>>,
                35,
                <<Rule("Ryanair", "British_Airways", 8), Rule("Ryanair", "Lufthansa", 7),
                  Rule("British_Airways", "Lufthansa", 5)>>)]

\* USER_TYPES: the keys in declaration order and the profile of each.
ShippedCatalog ==
    [name |-> [kind |-> "shipped", prefs |-> <<>>],
     types |-> <<"business_uk", "business_european", "leisure_premium",
                 "budget_conscious", "price_shopper">>,
     profile |-> ShippedProfiles]

\* Preference weights of the segments the simulator is tried on besides the
\* shipped ones.
HypoWeights == {0, 50, 100}

\* A preferences dict over all airlines, in AIRLINES order.
PrefsOf(f) == [i \in 1..Len(AIRLINES) |-> KV(AIRLINES[i], f[AIRLINES[i]])]

\* A catalog of one segment "segment" with the preferences f.
OneSegmentCatalog(f) ==
    [name |-> [kind |-> "one_segment", prefs |-> [i \in 1..Len(AIRLINES) |-> f[AIRLINES[i]]]],
     types |-> <<"segment">>,
     profile |-> [segment |->
        Profile(One, PrefsOf(f), 20, <<Rule("British_Airways", "Virgin_Atlantic", 10)>>)]]

HypoCatalogs == {OneSegmentCatalog(f) : f \in [AirlineSet -> HypoWeights]}

SimCatalogs == {ShippedCatalog} \cup HypoCatalogs

\* A catalog whose segment weights sum to 0.9.
BadWeightsCatalog ==
    [name |-> [kind |-> "bad_weights", prefs |-> <<>>],
     types |-> <<"home", "away">>,
     profile |->
        [home |-> Profile(50, PrefsOf([a \in AirlineSet |-> IF a = "British_Airways" THEN 100 ELSE 0]),
                          10, <<>>),
         away |-> Profile(40, PrefsOf([a \in AirlineSet |-> IF a = "Lufthansa" THEN 100 ELSE 0]),
                          10, <<>>)]]

\* A catalog whose second segment has a negative preference weight.
BadPreferencesCatalog ==
    [name |-> [kind |-> "bad_preferences", prefs |-> <<>>],
     types |-> <<"home", "away">>,
     profile |->
        [home |-> Profile(50, PrefsOf([a \in AirlineSet |-> IF a = "British_Airways" THEN 100 ELSE 0]),
                          10, <<>>),
         away |-> Profile(50, PrefsOf([a \in AirlineSet |->
                                          IF a = "Lufthansa" THEN 150
                                          ELSE IF a = "Ryanair" THEN -50 ELSE 0]),
                          10, <<>>)]]

\* A catalog whose one segment never prefers Virgin_Atlantic, the airline its
\* rule (British_Airways, Virgin_Atlantic) boosts.
BoostedZeroCatalog ==
    OneSegmentCatalog([a \in AirlineSet |->
                          IF a \in {"British_Airways", "Lufthansa"} THEN 50 ELSE 0])

GenCatalogs == {ShippedCatalog, BadWeightsCatalog, BadPreferencesCatalog, BoostedZeroCatalog}

\* ------------------------------------------------------------------- state
VARIABLES
    catalog,           \* which segment catalog the module was loaded with
    tape,              \* the seeded random stream (<<>>: any draw may come)
    pos,               \* next position of the stream
    last_draw,         \* the latest call that took a variate from the source
    pc,                \* where the program is
    err,               \* the exception that ended it, or "none"
    user_type,         \* generate_user_visits: its argument
    num_visits,        \* generate_user_visits: num_visits
    visits,            \* generate_user_visits: visits
    visited_airlines,  \* generate_user_visits: visited_airlines
    iter,              \* generate_user_visits: iterations of the loop done
    num_users,         \* generate_synthetic_dataset: its argument
    checkpoint,        \* generate_synthetic_dataset: checkpoint
    user_id,           \* generate_synthetic_dataset: the loop variable
    data_rows,         \* generate_synthetic_dataset: data_rows
    run,               \* which execution of the generator this is (1 or 2)
    first_rows,        \* the data_rows the first execution ended with
    file,              \* the record file given to the aggregator
    main_table,        \* create_airline_usertype_table's result
    alt_tables         \* create_alternative_tables' result

rngVars == <<tape, pos, last_draw>>
simVars == <<user_type, num_visits, visits, visited_airlines, iter>>
genVars == <<num_users, checkpoint, user_id, data_rows, run, first_rows>>
aggVars == <<file, main_table, alt_tables>>
vars == <<catalog, tape, pos, last_draw, pc, err, user_type, num_visits, visits,
          visited_airlines, iter, num_users, checkpoint, user_id, data_rows, run,
          first_rows, file, main_table, alt_tables>>

None == "none"

\* USER_TYPES, the module-level catalog.
USER_TYPES ==
    IF catalog.kind = "shipped" THEN ShippedCatalog
    ELSE IF catalog.kind = "bad_weights" THEN BadWeightsCatalog
    ELSE IF catalog.kind = "bad_preferences" THEN BadPreferencesCatalog
    ELSE OneSegmentCatalog([a \in AirlineSet |->
                               catalog.prefs[CHOOSE i \in 1..Len(AIRLINES) : AIRLINES[i] = a]])

\* ------------------------------------------------------------ arithmetic
RECURSIVE Sum(_)
Sum(s) == IF s = <<>> THEN 0 ELSE s[1] + Sum(Tail(s))

Max(S) == CHOOSE x \in S : \A y \in S : y <= x

Min2(a, b) == IF a < b THEN a ELSE b

Max2(a, b) == IF a > b THEN a ELSE b

Frac(n, d) == [n |-> n, d |-> d]

\* ------------------------------------------------------------ dictionaries
Keys(d) == [i \in 1..Len(d) |-> d[i].k]

Values(d) == [i \in 1..Len(d) |-> d[i].v]

DictGet(d, k) == d[CHOOSE i \in 1..Len(d) : d[i].k = k].v

DictSet(d, k, v) == [i \in 1..Len(d) |-> IF d[i].k = k THEN KV(k, v) ELSE d[i]]

\* ------------------------------------------------------- the random source
Seeded == tape # <<>>

\* The stream moves on by one variate.
Advance == IF Seeded THEN (pos % Len(tape)) + 1 ELSE pos

\* No variate has been taken from the source since it was seeded.
NoDraw == [actor |-> -1, kind |-> "none", n |-> 0]

\* The call that takes a variate from the source: the actor it is made for,
\* which call it is ("segment": line 133, "count": line 143, "entity": lines
\* 150 and 175) and, for an entity draw, its rank in the session.
Draw(kind, n) == [actor |-> user_id, kind |-> kind, n |-> n]

\* The uniform variates in [0,1) a draw over the integer weights w may get:
\* the seeded stream's next one, or, unseeded, one of each interval of the
\* cumulative distribution (its lower end).
Uniforms(w) ==
    IF Seeded THEN {Frac(2 * tape[pos] + 1, 2 * (MaxSample + 1))}
    ELSE {Frac(Sum(SubSeq(w, 1, j)), Sum(w)) :
             j \in {i \in 0..(Len(w) - 1) : Sum(SubSeq(w, 1, i)) < Sum(w)}}

\* np.random.poisson(lam): 0 when lam is 0, else any count.
PoissonSamples(lam) ==
    IF lam = 0 THEN {0}
    ELSE IF Seeded THEN {tape[pos]} ELSE 0..MaxSample

\* np.random.choice(a, p=p) accepts p: no negative entry, and sum(p) is 1.
ChoiceAccepts(p) == (\A i \in 1..Len(p) : p[i] >= 0) /\ Sum(p) = One

\* np.random.choice(a, p=w/sum(w)) under the variate u: the first index whose
\* cumulative probability exceeds u.
ChoiceIndex(w, u) ==
    CHOOSE i \in 1..Len(w) :
        /\ Sum(SubSeq(w, 1, i)) * u.d > u.n * Sum(w)
        /\ \A j \in 1..(i - 1) : ~(Sum(SubSeq(w, 1, j)) * u.d > u.n * Sum(w))

\* ------------------------------------------------- generate_user_visits
\* num_visits without the floor of 1: min(int(sample), len(AIRLINES))
NumVisitsNoFloor(sample) == Min2(sample, Len(AIRLINES))

\* num_visits = min(max(1, int(sample)), len(AIRLINES))
NumVisits(sample) == Min2(Max2(1, sample), Len(AIRLINES))

\* visits = {airline: 0 for airline in AIRLINES.keys()}, built lazily instead:
\* only the airlines drawn get an entry.
VisitRecordLazy == <<>>

\* visits = {airline: 0 for airline in AIRLINES.keys()}
VisitRecord == [a \in AirlineSet |-> 0]

\* ApplyRule with the boost added to the partner's weight, not multiplied.
ApplyRuleAdditive(adj, visited, rule, visitedSeq) ==
    IF visited = rule.a1 /\ rule.a2 \notin Range(visitedSeq)
    THEN DictSet(adj, rule.a2, Frac(DictGet(adj, rule.a2).n * 2 + rule.boost * DictGet(adj, rule.a2).d,
                                    DictGet(adj, rule.a2).d * 2))
    ELSE IF visited = rule.a2 /\ rule.a1 \notin Range(visitedSeq)
    THEN DictSet(adj, rule.a1, Frac(DictGet(adj, rule.a1).n * 2 + rule.boost * DictGet(adj, rule.a1).d,
                                    DictGet(adj, rule.a1).d * 2))
    ELSE adj

\* ApplyRule matching a rule only from its first airline.
ApplyRuleOneWay(adj, visited, rule, visitedSeq) ==
    IF visited = rule.a1 /\ rule.a2 \notin Range(visitedSeq)
    THEN DictSet(adj, rule.a2, Frac(DictGet(adj, rule.a2).n * rule.boost,
                                    DictGet(adj, rule.a2).d * 2))
    ELSE adj

\* One co-occurrence rule seen from one visited airline: the partner's
\* weight is multiplied when the partner is not visited yet.
ApplyRule(adj, visited, rule, visitedSeq) ==
    IF visited = rule.a1 /\ rule.a2 \notin Range(visitedSeq)
    THEN DictSet(adj, rule.a2, Frac(DictGet(adj, rule.a2).n * rule.boost,
                                    DictGet(adj, rule.a2).d * 2))
    ELSE IF visited = rule.a2 /\ rule.a1 \notin Range(visitedSeq)
    THEN DictSet(adj, rule.a1, Frac(DictGet(adj, rule.a1).n * rule.boost,
                                    DictGet(adj, rule.a1).d * 2))
    ELSE adj

\* for (a1, a2), boost in cooccurrence_boost.items()
RECURSIVE ApplyRules(_, _, _, _)
ApplyRules(adj, visited, rules, visitedSeq) ==
    IF rules = <<>> THEN adj
    ELSE ApplyRules(ApplyRule(adj, visited, rules[1], visitedSeq), visited,
                    Tail(rules), visitedSeq)

\* for visited in visited_airlines: (apply the boosts)
RECURSIVE ApplyBoosts(_, _, _, _)
ApplyBoosts(adj, todo, rules, visitedSeq) ==
    IF todo = <<>> THEN adj
    ELSE ApplyBoosts(ApplyRules(adj, todo[1], rules, visitedSeq), Tail(todo),
                     rules, visitedSeq)

\* for visited in visited_airlines: adjusted_probs[visited] = 0
RemoveVisited(adj, visitedSeq) ==
    [i \in 1..Len(adj) |->
        IF adj[i].k \in Range(visitedSeq) THEN KV(adj[i].k, Frac(0, 1)) ELSE adj[i]]

\* adjusted_probs of one iteration: the preferences, boosted, the visited
\* airlines removed.
AdjustedProbs(profile, visitedSeq) ==
    RemoveVisited(
        ApplyBoosts([i \in 1..Len(profile.preferences) |->
                        KV(profile.preferences[i].k, Frac(profile.preferences[i].v, 1))],
                    visitedSeq, profile.cooccurrence_boost, visitedSeq),
        visitedSeq)

\* The adjusted weights over their common denominator.
Numerators(adj) ==
    [i \in 1..Len(adj) |->
        adj[i].v.n * (Max({adj[j].v.d : j \in 1..Len(adj)}) \div adj[i].v.d)]

\* An exception leaves the program where it was raised.
Raise(e) == pc' = pc /\ err' = e

Running == err = None

\* Lines 137-147: the interaction count and the empty visit record.
PoissonDraw ==
    /\ Running /\ pc = "visits"
    /\ \E sample \in PoissonSamples(USER_TYPES.profile[user_type].avg_visits) :
          num_visits' = NumVisits(sample)
    /\ pos' = Advance
    /\ last_draw' = Draw("count", 0)
    /\ visits' = VisitRecord
    /\ visited_airlines' = <<>>
    /\ iter' = 0
    /\ pc' = "first"
    /\ UNCHANGED <<catalog, tape, err, user_type, genVars, aggVars>>

\* Lines 149-152: the first airline, drawn over the preferences as given.
FirstChoice ==
    /\ Running /\ pc = "first"
    /\ LET prefs == USER_TYPES.profile[user_type].preferences
       IN IF ~ChoiceAccepts(Values(prefs))
          THEN /\ Raise("ValueError")
               /\ UNCHANGED <<pos, last_draw, visits, visited_airlines>>
          ELSE /\ \E u \in Uniforms(Values(prefs)) :
                     LET first_airline == Keys(prefs)[ChoiceIndex(Values(prefs), u)]
                     IN /\ visits' = (first_airline :> 1) @@ visits
                        /\ visited_airlines' = <<first_airline>>
               /\ pos' = Advance
               /\ last_draw' = Draw("entity", 1)
               /\ pc' = IF num_visits - 1 > 0 THEN "loop" ELSE "return"
               /\ err' = err
    /\ UNCHANGED <<catalog, tape, user_type, num_visits, iter, genVars, aggVars>>

\* Lines 155-180: one iteration of the loop over the further visits.
NextChoice ==
    /\ Running /\ pc = "loop"
    /\ LET adjusted_probs == AdjustedProbs(USER_TYPES.profile[user_type], visited_airlines)
           w == Numerators(adjusted_probs)
       IN IF Sum(w) > 0
          THEN IF \E i \in 1..Len(w) : w[i] < 0
               THEN /\ Raise("ValueError")
                    /\ UNCHANGED <<pos, last_draw, visits, visited_airlines, iter>>
               ELSE /\ \E u \in Uniforms(w) :
                          LET next_airline == Keys(adjusted_probs)[ChoiceIndex(w, u)]
                          IN /\ visits' = (next_airline :> 1) @@ visits
                             /\ visited_airlines' = Append(visited_airlines, next_airline)
                    /\ pos' = Advance
                    /\ last_draw' = Draw("entity", Len(visited_airlines) + 1)
                    /\ iter' = iter + 1
                    /\ pc' = IF iter + 1 < num_visits - 1 THEN "loop" ELSE "return"
                    /\ err' = err
          ELSE /\ iter' = iter + 1
               /\ pc' = IF iter + 1 < num_visits - 1 THEN "loop" ELSE "return"
               /\ UNCHANGED <<pos, last_draw, visits, visited_airlines, err>>
    /\ UNCHANGED <<catalog, tape, user_type, num_visits, genVars, aggVars>>

\* Line 182, to a caller that keeps the session.
ReturnVisits ==
    /\ Running /\ pc = "return"
    /\ ~Seeded
    /\ pc' = "returned"
    /\ UNCHANGED <<catalog, rngVars, err, simVars, genVars, aggVars>>

NoFile == [exists |-> FALSE, columns |-> <<>>, rows |-> <<>>]

NoTable == [index |-> <<>>, columns |-> <<>>, cell |-> <<>>]

\* One call generate_user_visits(user_type), on any segment, under any draws.
InitSim ==
    /\ catalog \in {c.name : c \in SimCatalogs}
    /\ user_type \in Range(USER_TYPES.types)
    /\ tape = <<>> /\ pos = 1 /\ last_draw = NoDraw
    /\ pc = "visits" /\ err = None
    /\ num_visits = 0 /\ visits = <<>> /\ visited_airlines = <<>> /\ iter = 0
    /\ num_users = 0 /\ checkpoint = 0 /\ user_id = 0 /\ data_rows = <<>>
    /\ run = 1 /\ first_rows = <<>>
    /\ file = NoFile /\ main_table = NoTable /\ alt_tables = <<>>

NextSim == PoissonDraw \/ FirstChoice \/ NextChoice \/ ReturnVisits

SpecSim == InitSim /\ [][NextSim]_vars

\* --------------------------------------------- generate_synthetic_dataset
\* The process never seeds the random source: the stream goes on from where
\* it stands.
np_random_seed_missing(p) == p

\* np.random.seed(42): the stream restarts, wherever it stood.
np_random_seed(p) == 1

\* f'user_{user_id:06d}': the prefix, then the decimal digits of user_id,
\* zero-padded to six.
FormatUserId(i) ==
    <<"user_">> \o
    (IF i < 1000000
     THEN [j \in 1..6 |-> (i \div (10 ^ (6 - j))) % 10]
     ELSE [j \in 1..7 |-> (i \div (10 ^ (7 - j))) % 10])

\* row = {'user_id': ..., 'user_type': ...}; row.update(visits)
MakeRow(i, t, v) == v @@ [user_id |-> FormatUserId(i), user_type |-> t]

\* pd.DataFrame(data_rows), saved and read back as the record file.
DataFrameOf(rows) ==
    [exists |-> TRUE, columns |-> <<"user_id", "user_type">> \o AIRLINES, rows |-> rows]

\* Lines 186-192: the empty row list and the progress checkpoint.
BeginDataset ==
    /\ Running /\ pc = "dataset"
    /\ data_rows' = <<>>
    /\ checkpoint' = num_users \div CheckpointDivisor
    /\ user_id' = 0
    /\ pc' = "for"
    /\ UNCHANGED <<catalog, rngVars, err, simVars, num_users, run, first_rows, aggVars>>

\* Lines 194-197 and, once the range is exhausted, 208-252.
ForUser ==
    /\ Running /\ pc = "for"
    /\ IF user_id >= num_users
       THEN pc' = "done" /\ err' = err
       ELSE IF checkpoint = 0
            THEN Raise("ZeroDivisionError")
            ELSE pc' = "type" /\ err' = err
    /\ UNCHANGED <<catalog, rngVars, simVars, genVars, aggVars>>

\* generate_user_type, lines 129-133.
GenerateUserType ==
    /\ Running /\ pc = "type"
    /\ LET types == USER_TYPES.types
           weights == [i \in 1..Len(types) |-> USER_TYPES.profile[types[i]].weight]
       IN IF ~ChoiceAccepts(weights)
          THEN /\ Raise("ValueError")
               /\ UNCHANGED <<pos, last_draw, user_type>>
          ELSE /\ \E u \in Uniforms(weights) : user_type' = types[ChoiceIndex(weights, u)]
               /\ pos' = Advance
               /\ last_draw' = Draw("segment", 0)
               /\ pc' = "visits"
               /\ err' = err
    /\ UNCHANGED <<catalog, tape, num_visits, visits, visited_airlines, iter, genVars,
                   aggVars>>

\* range(num_users) handing out every other index.
NextActorSkipping(i) == i + 2

\* for user_id in range(num_users): the index after i.
NextActor(i) == i + 1

\* Lines 203-206: the session's row is appended.
AppendRow ==
    /\ Running /\ pc = "return"
    /\ Seeded
    /\ data_rows' = Append(data_rows, MakeRow(user_id, user_type, visits))
    /\ user_id' = NextActor(user_id)
    /\ pc' = "for"
    /\ UNCHANGED <<catalog, rngVars, err, simVars, num_users, checkpoint, run, first_rows,
                   aggVars>>

\* The script is executed a second time, on the same catalog and num_users.
Rerun ==
    /\ Running /\ pc = "done"
    /\ run = 1
    /\ run' = 2
    /\ first_rows' = data_rows
    /\ pos' = np_random_seed(pos)
    /\ last_draw' = NoDraw
    /\ pc' = "dataset"
    /\ UNCHANGED <<catalog, tape, err, simVars, num_users, checkpoint, user_id, data_rows,
                   aggVars>>

\* The module is loaded (its catalogs built, the random source seeded) and
\* generate_synthetic_dataset(num_users) is called.
InitGen ==
    /\ catalog \in {c.name : c \in GenCatalogs}
    /\ tape \in [1..TapeLen -> 0..MaxSample]
    /\ pos = np_random_seed(1) /\ last_draw = NoDraw
    /\ pc = "dataset" /\ err = None
    /\ user_type = USER_TYPES.types[1]
    /\ num_visits = 0 /\ visits = <<>> /\ visited_airlines = <<>> /\ iter = 0
    /\ num_users \in 1..MaxUsers
    /\ checkpoint = 0 /\ user_id = 0 /\ data_rows = <<>>
    /\ run = 1 /\ first_rows = <<>>
    /\ file = NoFile /\ main_table = NoTable /\ alt_tables = <<>>

NextGen ==
    \/ BeginDataset \/ ForUser \/ GenerateUserType
    \/ PoissonDraw \/ FirstChoice \/ NextChoice
    \/ AppendRow \/ Rerun

SpecGen == InitGen /\ [][NextGen]_vars

\* ------------------------------------------------ the contingency tables
\* Every group label, in the order Python's sorted() puts strings.
LabelOrder ==
    <<"Budget_focused", "EU_focused", "Mixed_Premium_Budget", "No_clear_preference",
      "Pan_European", "UK_focused", "away", "budget_conscious", "business_european",
      "business_uk", "home", "leisure_premium", "multi_airline", "no_visits",
      "price_shopper", "segment", "single_airline", "three_airlines", "two_airlines">>

\* sorted(labels)
Sorted(labels) == SelectSeq(LabelOrder, LAMBDA x : x \in Range(labels))

\* Series.unique(): the distinct values, in order of first appearance.
RECURSIVE Unique(_)
Unique(s) ==
    IF s = <<>> THEN <<>>
    ELSE LET rest == Unique(SubSeq(s, 1, Len(s) - 1))
         IN IF s[Len(s)] \in Range(rest) THEN rest ELSE Append(rest, s[Len(s)])

\* [col for col in df.columns if col not in ['user_id', 'user_type']]
AirlineCols(columns) == SelectSeq(columns, LAMBDA c : c \notin {"user_id", "user_type"})

\* (data[airline] >= 1).sum() over every row, whatever its group.
CountVisitsUnfiltered(rows, group, g, airline) ==
    Sum([i \in 1..Len(rows) |-> IF rows[i][airline] = 1 THEN 1 ELSE 0])

\* data = df[df[group] == g]; (data[airline] == 1).sum()
CountVisits(rows, group, g, airline) ==
    LET data == SelectSeq(rows, LAMBDA r : r[group] = g)
    IN Sum([i \in 1..Len(data) |-> IF data[i][airline] = 1 THEN 1 ELSE 0])

\* pd.DataFrame(index=airline_cols, columns=sorted(unique), data=0), then the
\* loop that fills a cell for every unique group and every airline.
FillTable(rows, airline_cols, group) ==
    LET groups == Unique([i \in 1..Len(rows) |-> rows[i][group]])
    IN [index |-> airline_cols,
        columns |-> Sorted(groups),
        cell |-> [c \in Range(airline_cols) \X Range(groups) |->
                     CountVisits(rows, group, c[2], c[1])]]

\* Lines 92-102: the visit pattern of a row.
VisitPattern(user, airline_cols) ==
    LET n == Sum([i \in 1..Len(airline_cols) |-> user[airline_cols[i]]])
    IN IF n = 1 THEN "single_airline"
       ELSE IF n = 2 THEN "two_airlines"
       ELSE IF n = 3 THEN "three_airlines"
       ELSE IF n >= 4 THEN "multi_airline"
       ELSE "no_visits"

uk_carriers(user) == user["British_Airways"] + user["Virgin_Atlantic"]

eu_carriers(user) == user["Lufthansa"] + user["Air_France"]

budget(user) == user["Ryanair"]

\* The conditions of lines 133-141, each on its own.
IsUKFocused(user) == uk_carriers(user) > 0 /\ eu_carriers(user) = 0 /\ budget(user) = 0

IsEUFocused(user) == eu_carriers(user) > 0 /\ uk_carriers(user) = 0 /\ budget(user) = 0

IsBudgetFocused(user) == budget(user) > 0 /\ uk_carriers(user) = 0 /\ eu_carriers(user) = 0

IsPanEuropean(user) == uk_carriers(user) > 0 /\ eu_carriers(user) > 0

IsMixedPremiumBudget(user) ==
    budget(user) > 0 /\ (uk_carriers(user) > 0 \/ eu_carriers(user) > 0)

\* The chain with its last two branches in the other order.
GeoPreferenceMixedFirst(user) ==
    IF IsUKFocused(user) THEN "UK_focused"
    ELSE IF IsEUFocused(user) THEN "EU_focused"
    ELSE IF IsBudgetFocused(user) THEN "Budget_focused"
    ELSE IF IsMixedPremiumBudget(user) THEN "Mixed_Premium_Budget"
    ELSE IF IsPanEuropean(user) THEN "Pan_European"
    ELSE "No_clear_preference"

\* Lines 133-144: the if/elif chain.
GeoPreference(user) ==
    IF IsUKFocused(user) THEN "UK_focused"
    ELSE IF IsEUFocused(user) THEN "EU_focused"
    ELSE IF IsBudgetFocused(user) THEN "Budget_focused"
    ELSE IF IsPanEuropean(user) THEN "Pan_European"
    ELSE IF IsMixedPremiumBudget(user) THEN "Mixed_Premium_Budget"
    ELSE "No_clear_preference"

\* df.copy() with one more column.
WithColumn(rows, name, values) == [i \in 1..Len(rows) |-> rows[i] @@ (name :> values[i])]

\* Lines 24-46.
UserTypeTable(df) == FillTable(df.rows, AirlineCols(df.columns), "user_type")

\* Lines 86-119.
VisitPatternTable(df) ==
    LET airline_cols == AirlineCols(df.columns)
        visit_patterns == [i \in 1..Len(df.rows) |-> VisitPattern(df.rows[i], airline_cols)]
    IN FillTable(WithColumn(df.rows, "visit_pattern", visit_patterns), airline_cols,
                 "visit_pattern")

\* Lines 126-161.
GeoTable(df) ==
    LET geo_preferences == [i \in 1..Len(df.rows) |-> GeoPreference(df.rows[i])]
    IN FillTable(WithColumn(df.rows, "geo_preference", geo_preferences),
                 AirlineCols(df.columns), "geo_preference")

\* create_airline_usertype_table, called by main (line 199).
CreateAirlineUsertypeTable ==
    /\ Running /\ pc = "main_table"
    /\ IF ~file.exists
       THEN Raise("FileNotFoundError") /\ UNCHANGED main_table
       ELSE IF "user_type" \notin Range(file.columns)
            THEN Raise("KeyError") /\ UNCHANGED main_table
            ELSE /\ main_table' = UserTypeTable(file)
                 /\ pc' = "alt_tables"
                 /\ err' = err
    /\ UNCHANGED <<catalog, rngVars, simVars, genVars, file, alt_tables>>

\* pd.read_csv and create_alternative_tables, called by main (lines 202-203).
CreateAlternativeTables ==
    /\ Running /\ pc = "alt_tables"
    /\ alt_tables' = [visit_pattern |-> VisitPatternTable(file), geographic |-> GeoTable(file)]
    /\ pc' = "save"
    /\ UNCHANGED <<catalog, rngVars, err, simVars, genVars, file, main_table>>

\* save_contingency_tables, called by main (line 206).
SaveContingencyTables ==
    /\ Running /\ pc = "save"
    /\ pc' = "saved"
    /\ UNCHANGED <<catalog, rngVars, err, simVars, genVars, aggVars>>

\* The columns of a record file: the full schema, or one lacking user_id,
\* user_type or both.
FileColumns ==
    {SelectSeq(<<"user_id", "user_type">> \o AIRLINES, LAMBDA c : c \notin missing) :
        missing \in SUBSET {"user_id", "user_type"}}

\* The segment labels met in record files.
FileUserTypes == {"business_uk", "price_shopper"}

\* Every visit vector, and the ones the rows of a file of several rows have.
VisitVectors == [AirlineSet -> {0, 1}]

CoreVisitVectors == {v \in VisitVectors : v["Virgin_Atlantic"] = 0}

\* The rows a record file with the given columns may hold.
FileRows(columns, vectors) ==
    {[c \in Range(columns) |->
        IF c = "user_id" THEN <<"user_">> ELSE IF c = "user_type" THEN t ELSE v[c]] :
        t \in FileUserTypes, v \in vectors}

\* The record files given to the aggregator: no file, or up to MaxRows rows
\* (of any visit vector in a file of at most two rows).
IsFile(f) ==
    \/ f = NoFile
    \/ \E columns \in FileColumns, n \in 0..MaxRows :
          \E rows \in [1..n -> FileRows(columns, IF n <= 2 THEN VisitVectors
                                                  ELSE CoreVisitVectors)] :
             f = [exists |-> TRUE, columns |-> columns, rows |-> rows]

\* main() of create_proper_contingency_table.py starts on some record file.
InitAgg ==
    /\ catalog = ShippedCatalog.name
    /\ tape = <<>> /\ pos = 1 /\ last_draw = NoDraw
    /\ pc = "main_table" /\ err = None
    /\ user_type = "business_uk"
    /\ num_visits = 0 /\ visits = <<>> /\ visited_airlines = <<>> /\ iter = 0
    /\ num_users = 0 /\ checkpoint = 0 /\ user_id = 0 /\ data_rows = <<>>
    /\ run = 1 /\ first_rows = <<>>
    /\ IsFile(file)
    /\ main_table = NoTable /\ alt_tables = <<>>

NextAgg == CreateAirlineUsertypeTable \/ CreateAlternativeTables \/ SaveContingencyTables

SpecAgg == InitAgg /\ [][NextAgg]_vars

\* ------------------------------------------------ claims on the simulator
user_profile == USER_TYPES.profile[user_type]

VisitCount == Cardinality({a \in DOMAIN visits : visits[a] = 1})

SessionReady == pc \in {"return", "returned"}

\* C1: every session generate_user_visits returns has exactly one entry per
\* catalog airline, every entry is 0 or 1, and between 1 and len(AIRLINES)
\* entries are 1.
C1_SessionWellFormed ==
    SessionReady =>
        /\ DOMAIN visits = AirlineSet
        /\ \A a \in AirlineSet : visits[a] \in {0, 1}
        /\ VisitCount >= 1
        /\ VisitCount <= Len(AIRLINES)

C1_Witness ==
    /\ pc = "returned"
    /\ user_type = "price_shopper"
    /\ num_visits = Len(AIRLINES)
    /\ VisitCount = Len(AIRLINES)

NonNegativePositiveSum(prefs) ==
    /\ \A i \in 1..Len(prefs) : prefs[i].v >= 0
    /\ Sum(Values(prefs)) > 0

\* C6: for a segment whose preference weights are non-negative with a
\* positive sum, whether or not they sum to 1, the first-visit draw raises
\* no error (it normalizes the weights itself).
C6_FirstDrawNormalizes ==
    (pc = "first" /\ err # None) => ~NonNegativePositiveSum(user_profile.preferences)

OneNonZero(prefs) == Cardinality({i \in 1..Len(prefs) : prefs[i].v # 0}) = 1

\* C7 as stated: for a segment in which exactly one airline has a non-zero
\* preference weight, every session has fewer visited airlines than the
\* interaction count num_visits, and no error is raised.
C7_AlwaysFewerThanCount ==
    (OneNonZero(user_profile.preferences) /\ SessionReady) =>
        (err = None /\ VisitCount < num_visits)

\* C7, amended: for such a segment every returned session has exactly one
\* visited airline, which is fewer than num_visits exactly when num_visits
\* is at least 2; the iterations that find no weight left raise nothing, and
\* the only error is the first draw's ValueError, raised exactly when the
\* weights do not sum to 1.
C7_EarlyStop ==
    OneNonZero(user_profile.preferences) =>
        /\ SessionReady =>
              /\ VisitCount = 1
              /\ (VisitCount < num_visits) <=> (num_visits >= 2)
        /\ err # None =>
              /\ err = "ValueError"
              /\ pc = "first"
              /\ ~ChoiceAccepts(Values(user_profile.preferences))

C7_Witness ==
    /\ OneNonZero(user_profile.preferences)
    /\ pc = "returned"
    /\ num_visits = 3
    /\ iter = 2
    /\ VisitCount = 1

\* The remaining-weight test of the iteration the simulator is about to run.
RemainingWeight == Sum(Numerators(AdjustedProbs(user_profile, visited_airlines)))

\* The product of the multipliers of the rules that pair airline e with a
\* visited airline, each rule once.
RECURSIVE BoostProduct(_, _, _)
BoostProduct(rules, e, visitedSet) ==
    IF rules = <<>> THEN Frac(1, 1)
    ELSE LET rest == BoostProduct(Tail(rules), e, visitedSet)
             r == rules[1]
         IN IF \/ (r.a1 = e /\ r.a2 \in visitedSet)
               \/ (r.a2 = e /\ r.a1 \in visitedSet)
            THEN Frac(rest.n * r.boost, rest.d * 2)
            ELSE rest

\* The selection weight the airline e is to have at a draw after the first.
SelectionWeight(profile, e, visitedSet) ==
    IF e \in visitedSet THEN Frac(0, 1)
    ELSE LET b == BoostProduct(profile.cooccurrence_boost, e, visitedSet)
         IN Frac(DictGet(profile.preferences, e) * b.n, b.d)

\* C12: at every draw after the first, the weight of each visited airline is
\* 0 and the weight of each unvisited airline is its preference times the
\* product of the multipliers of the rules pairing it with a visited airline
\* (in either order, each once); the airline drawn is an unvisited one whose
\* weight is positive, the weights being divided by their (positive) sum.
C12_BoostedWeights ==
    [][(pc = "loop" /\ err = None) =>
          LET adj == AdjustedProbs(user_profile, visited_airlines)
              V == Range(visited_airlines)
          IN /\ Keys(adj) = Keys(user_profile.preferences)
             /\ \A i \in 1..Len(adj) :
                   LET w == SelectionWeight(user_profile, adj[i].k, V)
                   IN adj[i].v.n * w.d = w.n * adj[i].v.d
             /\ visited_airlines' # visited_airlines =>
                   LET e == visited_airlines'[Len(visited_airlines')]
                   IN /\ visited_airlines' = Append(visited_airlines, e)
                      /\ e \notin V
                      /\ SelectionWeight(user_profile, e, V).n > 0
                      /\ RemainingWeight > 0]_vars

\* A price shopper has visited Ryanair and British_Airways, whose rules both
\* boost Lufthansa, and Lufthansa was drawn third.
C12_Witness ==
    /\ user_type = "price_shopper"
    /\ catalog = ShippedCatalog.name
    /\ visited_airlines = <<"Ryanair", "British_Airways", "Lufthansa">>
    /\ pc \in {"loop", "return"}

\* s: the number of airlines of positive preference weight in the segment.
PositiveCount(prefs) == Cardinality({i \in 1..Len(prefs) : prefs[i].v > 0})

\* C14: num_visits is max(1, min(len(AIRLINES), sample)) for every Poisson
\* sample, and every session returned has min(num_visits, s) visited
\* airlines, s being the number of airlines of positive preference weight in
\* its segment; so it has fewer than num_visits exactly when num_visits > s.
C14_VisitsAreMinOfCountAndSupport ==
    /\ \A sample \in 0..MaxSample :
          NumVisits(sample) = Max2(1, Min2(Len(AIRLINES), sample))
    /\ pc # "visits" => num_visits \in {NumVisits(sample) : sample \in 0..MaxSample}
    /\ SessionReady =>
          /\ VisitCount = Min2(num_visits, PositiveCount(user_profile.preferences))
          /\ (VisitCount < num_visits) <=>
                (num_visits > PositiveCount(user_profile.preferences))

\* A business_uk session (four airlines of positive preference) asked for
\* five visits and returned with four.
C14_Witness ==
    /\ catalog = ShippedCatalog.name
    /\ user_type = "business_uk"
    /\ pc = "returned"
    /\ num_visits = 5
    /\ VisitCount = 4
    /\ iter = 4

\* ------------------------------------------------ claims on the generator
\* C3: two executions of the generator from the same seed, on the same
\* catalog and num_users, produce the same sequence of sessions (actor id,
\* segment, visit vector), row by row, and so the same contingency tables.
C3_Deterministic ==
    run = 2 =>
        /\ pc # "dataset" =>
              /\ Len(data_rows) <= Len(first_rows)
              /\ data_rows = SubSeq(first_rows, 1, Len(data_rows))
        /\ pc = "done" =>
              /\ data_rows = first_rows
              /\ UserTypeTable(DataFrameOf(data_rows)) = UserTypeTable(DataFrameOf(first_rows))
              /\ GeoTable(DataFrameOf(data_rows)) = GeoTable(DataFrameOf(first_rows))

C3_Witness ==
    /\ run = 2 /\ pc = "done"
    /\ Len(data_rows) = num_users
    /\ Cardinality({data_rows[i].user_type : i \in 1..Len(data_rows)}) >= 2
    /\ \E i \in 1..Len(data_rows) :
          Sum([j \in 1..Len(AIRLINES) |-> data_rows[i][AIRLINES[j]]]) >= 3

\* C5: for every num_users >= 1 generate_synthetic_dataset completes
\* without raising and yields exactly num_users sessions, one per actor
\* index in index order, each with the actor id derived from its index.
C5_CompletesForEveryCount ==
    catalog = ShippedCatalog.name =>
        /\ err = None
        /\ pc = "done" =>
              /\ Len(data_rows) = num_users
              /\ \A i \in 1..Len(data_rows) : data_rows[i].user_id = FormatUserId(i - 1)

\* C8: a catalog with malformed weights is rejected when it is constructed,
\* before any session is simulated: its error never first surfaces at a
\* draw of the simulation.
C8_RejectedAtConstruction ==
    err = "ValueError" => (pc = "dataset" /\ data_rows = <<>>)

\* The draw b may come next after the draw a.
Follows(a, b) ==
    IF a = NoDraw THEN b = [actor |-> 0, kind |-> "segment", n |-> 0]
    ELSE IF a.kind = "segment" THEN b = [actor |-> a.actor, kind |-> "count", n |-> 0]
    ELSE IF a.kind = "count" THEN b = [actor |-> a.actor, kind |-> "entity", n |-> 1]
    ELSE \/ b = [actor |-> a.actor, kind |-> "entity", n |-> a.n + 1]
         \/ b = [actor |-> a.actor + 1, kind |-> "segment", n |-> 0]

\* C11: the random source is consumed in a fixed order. Within one execution
\* the first draw is actor 0's segment draw; a segment draw is followed by
\* the same actor's count draw, that by the actor's first entity draw, and an
\* entity draw by the same actor's next entity draw or by the segment draw of
\* the next actor index; every draw moves the stream on by one variate, the
\* stream moves only at a draw, and an iteration that finds no remaining
\* weight takes no draw.
C11_DrawOrder ==
    [][/\ (last_draw' # last_draw /\ run' = run) =>
              (Follows(last_draw, last_draw') /\ pos' = Advance)
       /\ (pos' # pos /\ run' = run) => last_draw' # last_draw
       /\ (pc = "loop" /\ err = None /\ RemainingWeight = 0) =>
              (pos' = pos /\ last_draw' = last_draw)]_vars

\* The second actor's session has run an iteration that found no weight.
C11_Witness ==
    /\ user_id >= 1
    /\ pc = "return"
    /\ iter = 1
    /\ Len(visited_airlines) = 1
    /\ last_draw = [actor |-> user_id, kind |-> "entity", n |-> 1]

\* The airlines the session or row v has visited.
Visited(v) == {a \in AirlineSet : a \in DOMAIN v /\ v[a] = 1}

\* C13: no session of a segment visits an airline whose preference weight in
\* that segment is 0, whether or not a rule boosts that airline: neither the
\* session being simulated nor any row of the dataset; and with the shipped
\* catalog the cells (Ryanair, business_uk), (Ryanair, business_european)
\* and (Ryanair, leisure_premium) of the contingency table of the dataset
\* generated so far are 0.
C13_ZeroPreferenceNeverVisited ==
    /\ pc \in {"first", "loop", "return"} =>
          \A a \in Visited(visits) : DictGet(user_profile.preferences, a) # 0
    /\ \A i \in 1..Len(data_rows) : \A a \in Visited(data_rows[i]) :
          DictGet(USER_TYPES.profile[data_rows[i].user_type].preferences, a) # 0
    /\ catalog = ShippedCatalog.name =>
          LET t == UserTypeTable(DataFrameOf(data_rows))
          IN \A g \in {"business_uk", "business_european", "leisure_premium"} :
                g \in Range(t.columns) => t.cell[<<"Ryanair", g>>] = 0

\* A complete dataset of the shipped catalog with business_uk sessions, one
\* of them visiting several airlines.
C13_Witness ==
    /\ catalog = ShippedCatalog.name
    /\ pc = "done"
    /\ Len(data_rows) = num_users
    /\ \E i \in 1..Len(data_rows) :
          /\ data_rows[i].user_type = "business_uk"
          /\ Cardinality(Visited(data_rows[i])) >= 2
    /\ UserTypeTable(DataFrameOf(data_rows)).cell[<<"Ryanair", "business_uk">>] = 0
    /\ UserTypeTable(DataFrameOf(data_rows)).cell[<<"British_Airways", "business_uk">>] > 0

\* ----------------------------------------------- claims on the aggregator
TablesDone == pc \in {"save", "saved"}

\* The tables the aggregator has produced, each with the column of the rows
\* that holds its group key.
ProducedTables ==
    (IF main_table # NoTable
     THEN {[table |-> main_table, rows |-> file.rows, group |-> "user_type"]} ELSE {})
    \cup
    (IF TablesDone
     THEN {[table |-> alt_tables.visit_pattern,
            rows |-> WithColumn(file.rows, "key",
                        [i \in 1..Len(file.rows) |->
                            VisitPattern(file.rows[i], AirlineCols(file.columns))]),
            group |-> "key"],
           [table |-> alt_tables.geographic,
            rows |-> WithColumn(file.rows, "key",
                        [i \in 1..Len(file.rows) |-> GeoPreference(file.rows[i])]),
            group |-> "key"]}
     ELSE {})

\* C2: in each of the three tables every cell (airline, group) is the number
\* of sessions whose flag for the airline is 1 and whose derived group key
\* is the group.
C2_CellsCountSessions ==
    \A t \in ProducedTables :
        /\ Range(t.table.columns) = {t.rows[i][t.group] : i \in 1..Len(t.rows)}
        /\ \A a \in Range(t.table.index), g \in Range(t.table.columns) :
              t.table.cell[<<a, g>>] =
                  Cardinality({i \in 1..Len(t.rows) :
                                  t.rows[i][a] = 1 /\ t.rows[i][t.group] = g})

C2_Witness ==
    /\ pc = "saved"
    /\ Len(file.rows) = 2
    /\ main_table.columns = <<"price_shopper">>
    /\ main_table.cell[<<"Ryanair", "price_shopper">>] = 2
    /\ main_table.cell[<<"Lufthansa", "price_shopper">>] = 1
    /\ Len(alt_tables.geographic.columns) = 2
    /\ Len(alt_tables.visit_pattern.columns) = 2

ColumnSum(table, g) == Sum([i \in 1..Len(table.index) |-> table.cell[<<table.index[i], g>>]])

Population(rows, group, g) == Cardinality({i \in 1..Len(rows) : rows[i][group] = g})

\* C4 as stated: the sum of each group column is the population of the
\* group, the number of sessions whose group key is that column.
C4_ColumnSumIsPopulation ==
    \A t \in ProducedTables : \A g \in Range(t.table.columns) :
        ColumnSum(t.table, g) = Population(t.rows, t.group, g)

\* C4, amended: the sum of each group column is the total number of visits
\* (flags equal to 1) of the sessions whose group key is that column.
C4_ColumnSumIsVisits ==
    \A t \in ProducedTables : \A g \in Range(t.table.columns) :
        ColumnSum(t.table, g) =
            Cardinality({c \in (1..Len(t.rows)) \X Range(t.table.index) :
                            t.rows[c[1]][t.group] = g /\ t.rows[c[1]][c[2]] = 1})

C4_Witness ==
    /\ pc = "saved"
    /\ Len(file.rows) = 2
    /\ main_table.columns = <<"business_uk", "price_shopper">>
    /\ ColumnSum(main_table, "business_uk") = 3
    /\ Population(file.rows, "user_type", "business_uk") = 1
    /\ ColumnSum(main_table, "price_shopper") = 0

MissingColumn == file.exists /\ ~({"user_id", "user_type"} \subseteq Range(file.columns))

\* C9: when the record file lacks the user_type or the user_id column, the
\* aggregator stops with an error at once and produces no contingency table.
C9_SchemaChecked ==
    MissingColumn => (pc = "main_table" /\ main_table = NoTable /\ alt_tables = <<>>)

\* The affinity rules a row satisfies.
SatisfiedRules(user) ==
    (IF IsUKFocused(user) THEN {"UK_focused"} ELSE {})
    \cup (IF IsEUFocused(user) THEN {"EU_focused"} ELSE {})
    \cup (IF IsBudgetFocused(user) THEN {"Budget_focused"} ELSE {})
    \cup (IF IsPanEuropean(user) THEN {"Pan_European"} ELSE {})
    \cup (IF IsMixedPremiumBudget(user) THEN {"Mixed_Premium_Budget"} ELSE {})

\* C10 as stated: every visit vector satisfies at most one affinity rule.
C10_RulesMutuallyExclusive ==
    TablesDone => \A i \in 1..Len(file.rows) : Cardinality(SatisfiedRules(file.rows[i])) <= 1

\* The label of a row by the rules it satisfies, whatever their order:
\* Pan_European when it satisfies that rule and Mixed_Premium_Budget.
LabelByRules(user) ==
    LET S == SatisfiedRules(user)
    IN IF S = {} THEN "No_clear_preference"
       ELSE IF Cardinality(S) = 1 THEN CHOOSE l \in S : TRUE
       ELSE "Pan_European"

\* C10, amended: a visit vector satisfies at most two affinity rules, and
\* two only when they are Pan_European and Mixed_Premium_Budget (a UK
\* carrier, an EU carrier and Ryanair visited); there the label is
\* Pan_European, the earlier rule, and everywhere else the label is the one
\* rule satisfied, or No_clear_preference when none is.
C10_OverlapResolvedByOrder ==
    TablesDone =>
        /\ \A i \in 1..Len(file.rows) :
              LET S == SatisfiedRules(file.rows[i])
              IN Cardinality(S) <= 1 \/ S = {"Pan_European", "Mixed_Premium_Budget"}
        /\ Range(alt_tables.geographic.columns) =
              {LabelByRules(file.rows[i]) : i \in 1..Len(file.rows)}

C10_Witness ==
    /\ pc = "saved"
    /\ Len(file.rows) = 1
    /\ SatisfiedRules(file.rows[1]) = {"Pan_European", "Mixed_Premium_Budget"}
    /\ alt_tables.geographic.columns = <<"Pan_European">>

====
